---- MODULE Spec2Model ----
(***************************************************************************)
(* The C boundary of the tokenizer: src/TokenizerRust/src/ffi.rs.          *)
(*                                                                         *)
(* State: the process-wide write-once registry TOKENIZER, the host's       *)
(* threads (each with the call it is in, its local tokenizer value, its    *)
(* output buffer and its last result), the heap of strings handed to the   *)
(* host, and whether the process has been brought down by a panic.         *)
(*                                                                         *)
(* The tokenization engine (tokenizers::Tokenizer) is an external          *)
(* collaborator.  It is represented by two small deterministic models,     *)
(* "A" and "B", that differ in vocabulary, in special tokens and in the    *)
(* inputs they reject.                                                     *)
(*                                                                         *)
(* Machine integers are scaled: IntBits stands for the 32 bits of i32 and  *)
(* u32, so that wrap-around is reachable by sequences TLC can hold.        *)
(***************************************************************************)
EXTENDS Integers, Sequences, FiniteSets, TLC

\* ------------------------------------------------------------------ bounds
MaxTextLen == 2     \* longest C string (path or text) a host passes
BufLen == 4         \* slots of a host output buffer
MaxIds == 2         \* longest id array a host passes to decode
MaxAllocs == 2      \* strings the host lets decode allocate
IntBits == 3        \* width of the model's i32 / u32 (stands for 32)

\* ------------------------------------------------------- program constants
INIT_OK == 0                \* tokenizer_init: success
ERR_INVALID_TEXT == -1      \* to_str failed
ERR_LOAD_OR_UNINIT == -2    \* init: load failed; encode: registry empty
ERR_ENCODE == -3            \* engine encode failed
NULL == 0                   \* ptr::null_mut()

Threads == {"t1", "t2"}
MainThread == "t1"

\* ------------------------------------------------------- machine integers
RECURSIVE Pow2(_)
Pow2(n) == IF n = 0 THEN 1 ELSE 2 * Pow2(n - 1)

WordMod == Pow2(IntBits)
I32Max == (WordMod \div 2) - 1

\* A conversion that saturates at the largest i32 instead of wrapping.
AsI32Saturating(x) == IF x > I32Max THEN I32Max ELSE x

\* `x as i32` of a u32 or a usize: keep the low bits, read them as signed.
AsI32(x) == LET m == x % WordMod IN IF m > I32Max THEN m - WordMod ELSE m

\* `x as u32` of an i32: the same bits read as unsigned.
AsU32(x) == x % WordMod

Min(a, b) == IF a <= b THEN a ELSE b

\* ------------------------------------------------------------ host inputs
SeqsUpTo(S, n) == UNION {[1 .. k -> S] : k \in 0 .. n}

\* Bytes of the C strings the host passes: 'a', 'b' and 0xFF (never valid in
\* UTF-8).  The terminating NUL is implicit, so no string holds a 0 byte.
TextBytes == {97, 98, 255}
CStrings == SeqsUpTo(TextBytes, MaxTextLen)

\* The caller's buffer before a call: every slot holds the same host value.
Fills == {3}
Capacities == 0 .. BufLen

\* Signed ids the host passes to decode: the ids 5 and 6 as the host's i32
\* holds them, and 0 and 1.
HostIds == {AsI32(5), AsI32(6), 0, 1}
IdArrays == SeqsUpTo(HostIds, MaxIds)

\* ------------------------------------------------------------------ to_str
IsCont(b) == b >= 128 /\ b <= 191

\* CStr::to_str succeeds exactly on well-formed UTF-8 (core::str::from_utf8).
RECURSIVE Utf8Valid(_)
Utf8Valid(s) ==
    IF s = <<>> THEN TRUE
    ELSE LET b == s[1]
             n == Len(s)
             rest(k) == SubSeq(s, k + 1, n)
         IN  IF b < 128 THEN Utf8Valid(rest(1))
             ELSE IF b >= 194 /\ b <= 223
                  THEN n >= 2 /\ IsCont(s[2]) /\ Utf8Valid(rest(2))
             ELSE IF b >= 224 /\ b <= 239
                  THEN /\ n >= 3
                       /\ IsCont(s[2]) /\ IsCont(s[3])
                       /\ (b = 224 => s[2] >= 160)
                       /\ (b = 237 => s[2] <= 159)
                       /\ Utf8Valid(rest(3))
             ELSE IF b >= 240 /\ b <= 244
                  THEN /\ n >= 4
                       /\ IsCont(s[2]) /\ IsCont(s[3]) /\ IsCont(s[4])
                       /\ (b = 240 => s[2] >= 144)
                       /\ (b = 244 => s[2] <= 143)
                       /\ Utf8Valid(rest(4))
             ELSE FALSE

\* ------------------------------------------------------------- the engine
Models == {"A", "B"}

\* Tokenizer::from_file: the file "a" holds model A, the file "b" model B,
\* and no other path can be loaded.
FromFile(path_str) ==
    IF path_str = <<97>> THEN [ok |-> TRUE, model |-> "A"]
    ELSE IF path_str = <<98>> THEN [ok |-> TRUE, model |-> "B"]
    ELSE [ok |-> FALSE, model |-> "none"]

\* Vocabulary: character -> id.  Model A has no entry for 'b' and no unknown
\* token, so it rejects texts holding 'b'.
Vocab(m) == IF m = "A" THEN (97 :> 5) ELSE (97 :> 1) @@ (98 :> 2)

\* Special tokens the post-processor puts around an encoding.
Bos(m) == IF m = "A" THEN <<0>> ELSE <<>>
Eos(m) == IF m = "A" THEN <<7>> ELSE <<>>
Specials(m) == IF m = "A" THEN {0, 7} ELSE {}

\* id -> text.  Model A has a token for the NUL character, which no C string
\* can produce through encode but which a host can pass to decode.
IdText(m) ==
    IF m = "A" THEN (5 :> <<97>>) @@ (6 :> <<0>>)
    ELSE (1 :> <<97>>) @@ (2 :> <<98>>)

\* Tokenizer::encode(text, add_special_tokens)
EngineEncode(m, s, add_special_tokens) ==
    IF \E i \in 1 .. Len(s) : s[i] \notin DOMAIN Vocab(m)
    THEN [ok |-> FALSE, ids |-> <<>>]
    ELSE LET body == [i \in 1 .. Len(s) |-> Vocab(m)[s[i]]]
         IN  [ok |-> TRUE,
              ids |-> IF add_special_tokens THEN Bos(m) \o body \o Eos(m)
                      ELSE body]

RECURSIVE Render(_, _, _)
Render(m, ids, skip_special_tokens) ==
    IF ids = <<>> THEN <<>>
    ELSE LET piece == IF ids[1] \in Specials(m)
                      THEN (IF skip_special_tokens THEN <<>> ELSE <<63>>)
                      ELSE IdText(m)[ids[1]]
         IN  piece \o Render(m, Tail(ids), skip_special_tokens)

\* Tokenizer::decode(ids, skip_special_tokens): fails on an id outside the
\* vocabulary.
EngineDecode(m, ids, skip_special_tokens) ==
    IF \E i \in 1 .. Len(ids) : ids[i] \notin (DOMAIN IdText(m) \cup Specials(m))
    THEN [ok |-> FALSE, text |-> <<>>]
    ELSE [ok |-> TRUE, text |-> Render(m, ids, skip_special_tokens)]

\* CString::new: an error when the bytes hold an interior NUL.
CStringNew(text) ==
    IF \E i \in 1 .. Len(text) : text[i] = 0
    THEN [ok |-> FALSE, bytes |-> <<>>]
    ELSE [ok |-> TRUE, bytes |-> text]

\* ------------------------------------------------------------ the registry
None == [model |-> "none", by |-> "none"]

\* A set that replaces what the cell holds.
OnceCellSetOverwrite(cell, value) == value

\* A set that stores nothing.
OnceCellSetDropped(cell, value) == cell

\* OnceCell::set: stores the value only into an empty cell.
OnceCellSet(cell, value) == IF cell = None THEN value ELSE cell

\* A get that falls back to a built-in tokenizer when the cell is empty.
OnceCellGetOrDefault(cell) ==
    IF cell = None THEN [model |-> "B", by |-> "none"] ELSE cell

\* OnceCell::get
OnceCellGet(cell) == cell

\* ------------------------------------------------------------------ state
VARIABLES
    TOKENIZER,  \* the registry: None or the published tokenizer
    pc,         \* per thread: where it is in a call
    call,       \* per thread: the arguments of its current or last call
    local,      \* per thread: the tokenizer value the call holds
    buf,        \* per thread: the host buffer given to encode
    ret,        \* per thread: the result of its last call, once returned
    printed,    \* per thread: the current or last call wrote a trace line
    heap,       \* addresses of the strings decode has handed out
    fault,      \* "none", or how a panic ended the process
    published,  \* history: every tokenizer the registry has ever held
    init_ok     \* history: some tokenizer_init has returned 0

vars == <<TOKENIZER, pc, call, local, buf, ret, printed, heap, fault,
          published, init_ok>>

NoCall == [op |-> "none", str |-> <<>>, ids |-> <<>>, cap |-> 0]
NoRet == [op |-> "none", val |-> 0, text |-> <<>>]
Result(op, val) == [op |-> op, val |-> val, text |-> <<>>]

HostBuffer(fill) == [i \in 1 .. BufLen |-> fill]

Init ==
    /\ TOKENIZER = None
    /\ pc = [t \in Threads |-> "idle"]
    /\ call = [t \in Threads |-> NoCall]
    /\ local = [t \in Threads |-> None]
    /\ buf = [t \in Threads |-> HostBuffer(CHOOSE f \in Fills : TRUE)]
    /\ ret = [t \in Threads |-> NoRet]
    /\ printed = [t \in Threads |-> FALSE]
    /\ heap = {}
    /\ fault = "none"
    /\ published = {}
    /\ init_ok = FALSE

CanCall(t) == fault = "none" /\ pc[t] = "idle"

\* The call returns `r` to the host; its locals are gone.
Return(t, r) ==
    /\ ret' = [ret EXCEPT ![t] = r]
    /\ pc' = [pc EXCEPT ![t] = "idle"]
    /\ local' = [local EXCEPT ![t] = None]

\* The call goes on to its next step holding the tokenizer value `tok`.
Continue(t, tok, at) ==
    /\ ret' = [ret EXCEPT ![t] = NoRet]
    /\ pc' = [pc EXCEPT ![t] = at]
    /\ local' = [local EXCEPT ![t] = tok]

\* ------------------------------------------------------------ tokenizer_init
\* A load that falls back to the built-in model B when the file cannot be
\* loaded.
InitLoadDefault(t, path) ==
    IF ~Utf8Valid(path)
    THEN [status |-> ERR_INVALID_TEXT, printed |-> FALSE, tok |-> None]
    ELSE LET loaded == FromFile(path)
         IN  [status |-> INIT_OK, printed |-> TRUE,
              tok |-> [model |-> IF loaded.ok THEN loaded.model ELSE "B",
                       by |-> t]]

\* A load that reads the path lossily (to_string_lossy) instead of rejecting
\* bytes that are not text.
InitLoadLossy(t, path) ==
    LET loaded == FromFile(path)
    IN  IF loaded.ok
        THEN [status |-> INIT_OK, printed |-> TRUE,
              tok |-> [model |-> loaded.model, by |-> t]]
        ELSE [status |-> ERR_LOAD_OR_UNINIT, printed |-> TRUE, tok |-> None]

\* Lines 11-18 and 22: read the path (-1 when it is not text), trace it, load
\* the file (-2 when the engine cannot).  `tok` is the tokenizer loaded.
InitLoad(t, path) ==
    IF ~Utf8Valid(path)
    THEN [status |-> ERR_INVALID_TEXT, printed |-> FALSE, tok |-> None]
    ELSE LET loaded == FromFile(path)
         IN  IF loaded.ok
             THEN [status |-> INIT_OK, printed |-> TRUE,
                   tok |-> [model |-> loaded.model, by |-> t]]
             ELSE [status |-> ERR_LOAD_OR_UNINIT, printed |-> TRUE, tok |-> None]

\* A status that reports a set that found the cell taken.
InitSetStatusChecked(cell, value) ==
    IF cell = None THEN INIT_OK ELSE ERR_LOAD_OR_UNINIT

\* Lines 19-20: `let _ = TOKENIZER.set(tokenizer); 0`: the outcome of set is
\* dropped and the status is 0.
InitSetStatus(cell, value) == INIT_OK

tokenizer_init(t, path) ==
    /\ CanCall(t)
    /\ call' = [call EXCEPT ![t] = [NoCall EXCEPT !.op = "init", !.str = path]]
    /\ LET r == InitLoad(t, path)
       IN  /\ printed' = [printed EXCEPT ![t] = r.printed]
           /\ IF r.tok # None
              THEN Continue(t, r.tok, "init_set")
              ELSE Return(t, Result("init", r.status))
    /\ UNCHANGED <<TOKENIZER, buf, heap, fault, published, init_ok>>

tokenizer_init_set(t) ==
    /\ fault = "none"
    /\ pc[t] = "init_set"
    /\ TOKENIZER' = OnceCellSet(TOKENIZER, local[t])
    /\ published' = published \cup ({TOKENIZER'} \ {None})
    /\ init_ok' = (init_ok \/ InitSetStatus(TOKENIZER, local[t]) = INIT_OK)
    /\ Return(t, Result("init", InitSetStatus(TOKENIZER, local[t])))
    /\ UNCHANGED <<call, buf, printed, heap, fault>>

\* ---------------------------------------------------------- tokenizer_encode
\* A lookup that consults the registry before it reads the text.
EncodeLookupRegistryFirst(cell, text) ==
    IF OnceCellGet(cell) = None
    THEN [status |-> ERR_LOAD_OR_UNINIT, tok |-> None]
    ELSE IF ~Utf8Valid(text) THEN [status |-> ERR_INVALID_TEXT, tok |-> None]
    ELSE [status |-> 0, tok |-> OnceCellGet(cell)]

\* Lines 28-36: read the text (-1 when it is not text), look the registry up
\* (-2 when it is empty).
EncodeLookup(cell, text) ==
    IF ~Utf8Valid(text) THEN [status |-> ERR_INVALID_TEXT, tok |-> None]
    ELSE IF OnceCellGet(cell) = None
    THEN [status |-> ERR_LOAD_OR_UNINIT, tok |-> None]
    ELSE [status |-> 0, tok |-> OnceCellGet(cell)]

\* Line 42: every engine id as i32.
IdsAsI32(ids) == [i \in 1 .. Len(ids) |-> AsI32(ids[i])]

\* A length that ignores the capacity.
EncodeLenUnclamped(n, max_len) == n

\* Line 43: ids_i32.len().min(max_len)
EncodeLen(n, max_len) == Min(n, max_len)

\* Line 46: ptr::copy_nonoverlapping(src, dst, count): the first `count`
\* elements of src over the first `count` slots of dst.
CopyNonoverlapping(src, dst, count) ==
    [i \in DOMAIN dst |-> IF i <= count THEN src[i] ELSE dst[i]]

\* Line 48: len as i32
EncodeReturn(len) == AsI32(len)

\* Lines 37-48: encode with special tokens (-3 when the engine fails),
\* convert, truncate, trace, copy into the host buffer `dst`.
EncodeRun(tok, text, max_len, dst) ==
    LET encoding == EngineEncode(tok.model, text, TRUE)
        ids_i32 == IdsAsI32(encoding.ids)
        len == EncodeLen(Len(ids_i32), max_len)
    IN  IF ~encoding.ok
        THEN [status |-> ERR_ENCODE, buf |-> dst, printed |-> FALSE]
        ELSE [status |-> EncodeReturn(len),
              buf |-> CopyNonoverlapping(ids_i32, dst, len),
              printed |-> TRUE]

\* The host hands over a buffer of BufLen slots, each holding `fill`, of which
\* it offers the first max_len.
tokenizer_encode(t, text, max_len, fill) ==
    /\ CanCall(t)
    /\ call' = [call EXCEPT ![t] =
                   [NoCall EXCEPT !.op = "encode", !.str = text, !.cap = max_len]]
    /\ buf' = [buf EXCEPT ![t] = HostBuffer(fill)]
    /\ printed' = [printed EXCEPT ![t] = FALSE]
    /\ LET r == EncodeLookup(TOKENIZER, text)
       IN  IF r.tok # None
           THEN Continue(t, r.tok, "enc_run")
           ELSE Return(t, Result("encode", r.status))
    /\ UNCHANGED <<TOKENIZER, heap, fault, published, init_ok>>

tokenizer_encode_run(t) ==
    /\ fault = "none"
    /\ pc[t] = "enc_run"
    /\ LET r == EncodeRun(local[t], call[t].str, call[t].cap, buf[t])
       IN  /\ printed' = [printed EXCEPT ![t] = r.printed]
           /\ buf' = [buf EXCEPT ![t] = r.buf]
           /\ Return(t, Result("encode", r.status))
    /\ UNCHANGED <<TOKENIZER, call, heap, fault, published, init_ok>>

\* ---------------------------------------------------------- tokenizer_decode
\* Lines 53-56: look the registry up.
DecodeLookup(cell) == OnceCellGet(cell)

\* Line 58: every host id as u32.
IdsAsU32(ids) == [i \in 1 .. Len(ids) |-> AsU32(ids[i])]

\* Lines 57-62: convert the ids, decode skipping special tokens (null when
\* the engine fails), and make the text a C string.
\* CString::new(text).unwrap() panics on a text with an interior NUL.
DecodeRun(tok, ids) ==
    LET tokens == IdsAsU32(ids)
        decoded == EngineDecode(tok.model, tokens, TRUE)
        cstring == CStringNew(decoded.text)
    IN  IF ~decoded.ok THEN [kind |-> "null", text |-> <<>>]
        ELSE IF ~cstring.ok THEN [kind |-> "panic", text |-> <<>>]
        ELSE [kind |-> "string", text |-> cstring.bytes]

\* What a panic inside an extern "C" function does to the process: the
\* runtime aborts it, or (older toolchains) the unwinding reaches the host.
PanicOutcomes == {"abort", "unwind"}

\* Decodes in flight; each may still allocate.
Decoding == {t \in Threads : pc[t] = "dec_run"}

tokenizer_decode(t, ids) ==
    /\ CanCall(t)
    /\ Cardinality(heap) + Cardinality(Decoding) < MaxAllocs
    /\ call' = [call EXCEPT ![t] = [NoCall EXCEPT !.op = "decode", !.ids = ids]]
    /\ printed' = [printed EXCEPT ![t] = FALSE]
    /\ LET tok == DecodeLookup(TOKENIZER)
       IN  IF tok # None
           THEN Continue(t, tok, "dec_run")
           ELSE Return(t, Result("decode", NULL))
    /\ UNCHANGED <<TOKENIZER, buf, heap, fault, published, init_ok>>

tokenizer_decode_run(t) ==
    /\ fault = "none"
    /\ pc[t] = "dec_run"
    /\ LET r == DecodeRun(local[t], call[t].ids)
           addr == Cardinality(heap) + 1
       IN  IF r.kind = "null"
           THEN /\ Return(t, Result("decode", NULL))
                /\ UNCHANGED <<heap, fault>>
           ELSE IF r.kind = "panic"
           THEN /\ \E outcome \in PanicOutcomes : fault' = outcome
                /\ pc' = [pc EXCEPT ![t] = "panicked"]
                /\ UNCHANGED <<ret, local, heap>>
           ELSE /\ heap' = heap \cup {addr}
                /\ Return(t, [op |-> "decode", val |-> addr, text |-> r.text])
                /\ fault' = fault
    /\ UNCHANGED <<TOKENIZER, call, buf, printed, published, init_ok>>

\* --------------------------------------------------------- tokenizer_cleanup
\* A cleanup that releases the strings decode has handed out.
tokenizer_cleanup_freeing(t) ==
    /\ CanCall(t)
    /\ call' = [call EXCEPT ![t] = [NoCall EXCEPT !.op = "cleanup"]]
    /\ printed' = [printed EXCEPT ![t] = FALSE]
    /\ Return(t, Result("cleanup", 0))
    /\ heap' = {}
    /\ UNCHANGED <<TOKENIZER, buf, fault, published, init_ok>>

\* A cleanup that empties the registry.
tokenizer_cleanup_reset(t) ==
    /\ CanCall(t)
    /\ call' = [call EXCEPT ![t] = [NoCall EXCEPT !.op = "cleanup"]]
    /\ printed' = [printed EXCEPT ![t] = FALSE]
    /\ Return(t, Result("cleanup", 0))
    /\ TOKENIZER' = None
    /\ UNCHANGED <<buf, heap, fault, published, init_ok>>

\* Lines 66-68: nothing.
tokenizer_cleanup(t) ==
    /\ CanCall(t)
    /\ call' = [call EXCEPT ![t] = [NoCall EXCEPT !.op = "cleanup"]]
    /\ printed' = [printed EXCEPT ![t] = FALSE]
    /\ Return(t, Result("cleanup", 0))
    /\ UNCHANGED <<TOKENIZER, buf, heap, fault, published, init_ok>>

\* ------------------------------------------------------------ specifications
\* One host thread, every input.
Next ==
    \/ \E path \in CStrings : tokenizer_init(MainThread, path)
    \/ tokenizer_init_set(MainThread)
    \/ \E text \in CStrings, max_len \in Capacities, fill \in Fills :
          tokenizer_encode(MainThread, text, max_len, fill)
    \/ tokenizer_encode_run(MainThread)
    \/ \E ids \in IdArrays : tokenizer_decode(MainThread, ids)
    \/ tokenizer_decode_run(MainThread)
    \/ tokenizer_cleanup(MainThread)

Spec == Init /\ [][Next]_vars

\* Several host threads, their calls interleaved at the registry accesses,
\* on the shortest inputs.
ConcStrings == SeqsUpTo(TextBytes, 1)
ConcCapacities == {1, BufLen}
ConcIdArrays == SeqsUpTo({AsI32(5), AsI32(6)}, 1)

NextConc ==
    \E t \in Threads :
        \/ \E path \in ConcStrings : tokenizer_init(t, path)
        \/ tokenizer_init_set(t)
        \/ \E text \in ConcStrings, max_len \in ConcCapacities, fill \in Fills :
              tokenizer_encode(t, text, max_len, fill)
        \/ tokenizer_encode_run(t)
        \/ \E ids \in ConcIdArrays : tokenizer_decode(t, ids)
        \/ tokenizer_decode_run(t)
        \/ tokenizer_cleanup(t)

SpecConc == Init /\ [][NextConc]_vars

\* One host thread that decodes what its last encode reported: the first
\* `ret` slots of the buffer, when encode returned a count.
EncodeOutput(t) == SubSeq(buf[t], 1, ret[t].val)

NextRoundTrip ==
    \/ \E path \in CStrings : tokenizer_init(MainThread, path)
    \/ tokenizer_init_set(MainThread)
    \/ \E text \in CStrings, max_len \in Capacities, fill \in Fills :
          tokenizer_encode(MainThread, text, max_len, fill)
    \/ tokenizer_encode_run(MainThread)
    \/ /\ ret[MainThread].op = "encode"
       /\ ret[MainThread].val >= 0
       /\ tokenizer_decode(MainThread, EncodeOutput(MainThread))
    \/ tokenizer_decode_run(MainThread)
    \/ tokenizer_cleanup(MainThread)

SpecRoundTrip == Init /\ [][NextRoundTrip]_vars

\* ==================================================================== claims
Loadable(path) == Utf8Valid(path) /\ FromFile(path).ok
Encodable(m, text) == Utf8Valid(text) /\ EngineEncode(m, text, TRUE).ok

\* Thread t's part of the state.
Own(t) == <<pc[t], call[t], local[t], buf[t], ret[t], printed[t]>>

\* This step is thread t entering the exported function `op`.
Started(t, op) == pc[t] = "idle" /\ call'[t].op = op /\ Own(t)' # Own(t)

\* C1: first-writer-wins.  Once the registry holds a tokenizer it holds that
\* same tokenizer after every step, so the registry has held at most one
\* tokenizer in all; and every encode or decode that gets past the lookup
\* works on that tokenizer.
C1_FirstWriterWins ==
    [][/\ (TOKENIZER # None => TOKENIZER' = TOKENIZER)
       /\ Cardinality(published') <= 1
       /\ \A t \in Threads :
             pc'[t] \in {"enc_run", "dec_run"} =>
                 local'[t] = TOKENIZER' /\ published' = {local'[t]}]_vars

\* C1 witness: model A was published, and a later tokenizer_init of model B's
\* file has returned 0 with the registry still holding A.
C1_Witness ==
    /\ TOKENIZER = [model |-> "A", by |-> MainThread]
    /\ call[MainThread].op = "init"
    /\ FromFile(call[MainThread].str).model = "B"
    /\ ret[MainThread] = Result("init", INIT_OK)

\* C2: while the registry is empty, every tokenizer_encode of valid text has
\* returned -2 and every tokenizer_decode has returned null, whatever the
\* capacity, the id array and its length.
C2_EmptyRegistry ==
    TOKENIZER = None =>
        \A t \in Threads :
            /\ (ret[t].op = "encode" /\ Utf8Valid(call[t].str)) =>
                   ret[t].val = ERR_LOAD_OR_UNINIT
            /\ ret[t].op = "decode" => ret[t].val = NULL
            /\ pc[t] \notin {"enc_run", "dec_run"}

\* C2 witness: on an empty registry, an encode of "a" into a full-size buffer
\* has returned -2.
C2_Witness ==
    /\ TOKENIZER = None
    /\ call[MainThread].str = <<97>>
    /\ call[MainThread].cap = BufLen
    /\ ret[MainThread] = Result("encode", ERR_LOAD_OR_UNINIT)

\* C3: with an initialized registry and a text the engine encodes, encode
\* returns n = min(resultLength, capacity), slots 1..n of the buffer hold the
\* first n converted ids in order, and every later slot holds what the host
\* put there.
C3_EncodeTruncates ==
    \A t \in Threads :
        (/\ ret[t].op = "encode"
         /\ TOKENIZER # None
         /\ Encodable(TOKENIZER.model, call[t].str)) =>
            LET ids == IdsAsI32(EngineEncode(TOKENIZER.model, call[t].str, TRUE).ids)
                n == Min(Len(ids), call[t].cap)
            IN  /\ ret[t].val = n
                /\ \A i \in 1 .. BufLen :
                      IF i <= n THEN buf[t][i] = ids[i] ELSE buf[t][i] \in Fills

\* C3, as far as the code goes: the same, for the calls whose count n fits
\* the signed result.
C3_EncodeTruncatesInRange ==
    \A t \in Threads :
        (/\ ret[t].op = "encode"
         /\ TOKENIZER # None
         /\ Encodable(TOKENIZER.model, call[t].str)) =>
            LET ids == IdsAsI32(EngineEncode(TOKENIZER.model, call[t].str, TRUE).ids)
                n == Min(Len(ids), call[t].cap)
            IN  /\ n <= I32Max => ret[t].val = n
                /\ \A i \in 1 .. BufLen :
                      IF i <= n THEN buf[t][i] = ids[i] ELSE buf[t][i] \in Fills

\* C4: no call ends in a panic or an abort: every error comes back as a
\* negative status or a null pointer.
C4_NoPanic ==
    /\ fault = "none"
    /\ \A t \in Threads : pc[t] # "panicked"

\* C5: a tokenizer_init whose path is text the engine cannot load returns -2
\* in the step that starts it and leaves the registry as it was.
C5_LoadFailure ==
    [][\A t \in Threads :
          (/\ Started(t, "init")
           /\ Utf8Valid(call'[t].str)
           /\ ~FromFile(call'[t].str).ok) =>
              /\ ret'[t] = Result("init", ERR_LOAD_OR_UNINIT)
              /\ pc'[t] = "idle"
              /\ TOKENIZER' = TOKENIZER
              /\ published' = published]_vars

\* C5 witness: the registry holds model A and an init of the missing file
\* "ab" has just returned -2.
C5_Witness ==
    /\ TOKENIZER = [model |-> "A", by |-> MainThread]
    /\ call[MainThread].str = <<97, 98>>
    /\ ret[MainThread] = Result("init", ERR_LOAD_OR_UNINIT)

\* C6: a tokenizer_init of a loadable path returns 0 whether or not the
\* registry already holds a tokenizer, and when it does the publish changes
\* nothing.
C6_InitReturnsZero ==
    [][\A t \in Threads :
          /\ (ret'[t].op = "init" /\ Loadable(call'[t].str)) =>
                 ret'[t].val = INIT_OK
          /\ (pc[t] = "init_set" /\ pc'[t] # "init_set") =>
                 /\ ret'[t] = Result("init", INIT_OK)
                 /\ TOKENIZER # None => TOKENIZER' = TOKENIZER]_vars

\* C6 witness: the registry holds model B, and a later init of model A's file
\* has returned 0.
C6_Witness ==
    /\ TOKENIZER = [model |-> "B", by |-> MainThread]
    /\ call[MainThread].op = "init"
    /\ call[MainThread].str = <<97>>
    /\ ret[MainThread] = Result("init", INIT_OK)

\* C7: once some tokenizer_init has returned 0, an encode or decode started on
\* any thread finds the registry initialized: encode does not return -2 and
\* decode does not return null at the lookup.
C7_PublishVisible ==
    [][init_ok =>
          \A t \in Threads :
              /\ Started(t, "encode") =>
                    /\ ret'[t].val # ERR_LOAD_OR_UNINIT
                    /\ Utf8Valid(call'[t].str) =>
                           pc'[t] = "enc_run" /\ local'[t] # None
              /\ Started(t, "decode") =>
                    pc'[t] = "dec_run" /\ local'[t] # None]_vars

\* C7 witness: thread t1's init has returned 0 and thread t2's encode has
\* found the tokenizer t1 published.
C7_Witness ==
    /\ ret["t1"] = Result("init", INIT_OK)
    /\ pc["t2"] = "enc_run"
    /\ local["t2"].by = "t1"

\* C8: however tokenizer_init calls of loadable paths interleave, the registry
\* has held at most one tokenizer, and every such call that has returned has
\* returned 0 with the registry holding one of the loaded tokenizers.
C8_ConcurrentInit ==
    /\ Cardinality(published) <= 1
    /\ \A t \in Threads :
          (ret[t].op = "init" /\ Loadable(call[t].str)) =>
              /\ ret[t].val = INIT_OK
              /\ published = {TOKENIZER}
              /\ TOKENIZER.model \in Models
              /\ TOKENIZER.by \in Threads

\* C8 witness: t1 loaded model A and t2 model B, both calls have returned 0,
\* and the registry holds t2's tokenizer.
C8_Witness ==
    /\ call["t1"].str = <<97>> /\ ret["t1"] = Result("init", INIT_OK)
    /\ call["t2"].str = <<98>> /\ ret["t2"] = Result("init", INIT_OK)
    /\ TOKENIZER = [model |-> "B", by |-> "t2"]

C10_ZeroCapacity ==
    [][\A t \in Threads :
          (/\ pc[t] = "enc_run" /\ pc'[t] # "enc_run"
           /\ call[t].cap = 0
           /\ Encodable(TOKENIZER.model, call[t].str)) =>
              /\ ret'[t] = Result("encode", 0)
              /\ buf'[t] = buf[t]]_vars

\* C10 witness: under model A, an encode of "aa" (four ids) with capacity 0
\* has returned 0.
C10_Witness ==
    /\ TOKENIZER.model = "A"
    /\ call[MainThread].str = <<97, 97>>
    /\ call[MainThread].cap = 0
    /\ ret[MainThread] = Result("encode", 0)

\* C11: an encode of bytes that are not text returns -1, and whenever encode
\* returns a negative status (the claim takes these to be -1, -2 and -3)
\* every slot of the host buffer holds what the host put there.
C11_ErrorLeavesBuffer ==
    \A t \in Threads :
        ret[t].op = "encode" =>
            /\ ~Utf8Valid(call[t].str) => ret[t].val = ERR_INVALID_TEXT
            /\ ret[t].val < 0 => \A i \in 1 .. BufLen : buf[t][i] \in Fills

\* C11, as far as the code goes: the same for the three error paths (text
\* that is not text, the empty registry, an engine failure).
C11_ErrorPathsLeaveBuffer ==
    \A t \in Threads :
        (/\ ret[t].op = "encode"
         /\ \/ ~Utf8Valid(call[t].str)
            \/ TOKENIZER = None
            \/ ~Encodable(TOKENIZER.model, call[t].str)) =>
            /\ ret[t].val \in {ERR_INVALID_TEXT, ERR_LOAD_OR_UNINIT, ERR_ENCODE}
            /\ \A i \in 1 .. BufLen : buf[t][i] \in Fills

\* C12: a tokenizer_init whose path is not text returns -1 in the step that
\* starts it, holding no loaded tokenizer, with no trace line written and the
\* registry as it was.
C12_InvalidPath ==
    [][\A t \in Threads :
          (Started(t, "init") /\ ~Utf8Valid(call'[t].str)) =>
              /\ ret'[t] = Result("init", ERR_INVALID_TEXT)
              /\ pc'[t] = "idle"
              /\ local'[t] = None
              /\ ~printed'[t]
              /\ TOKENIZER' = TOKENIZER
              /\ published' = published
              /\ init_ok' = init_ok]_vars

\* C12 witness: the registry holds model B and an init of the path 0xFF has
\* returned -1 without a trace line.
C12_Witness ==
    /\ TOKENIZER = [model |-> "B", by |-> MainThread]
    /\ call[MainThread].str = <<255>>
    /\ ret[MainThread] = Result("init", ERR_INVALID_TEXT)
    /\ ~printed[MainThread]

\* C13: a step in which a decode returns non-null adds exactly one address,
\* new and the one returned, to the strings handed out; every other step of
\* initialize, encode, decode and cleanup leaves them as they are.  So the
\* strings handed out are as many as the decodes that succeeded, and the core
\* has freed none.
C13_OneAllocationPerDecode ==
    [][LET returned == {t \in Threads : /\ pc[t] = "dec_run"
                                        /\ pc'[t] = "idle"
                                        /\ ret'[t].val # NULL}
       IN  /\ heap \subseteq heap'
           /\ Cardinality(heap') = Cardinality(heap) + Cardinality(returned)
           /\ \A t \in returned : ret'[t].val \in heap' \ heap
           /\ \A t \in Threads :
                 (ret'[t].op = "decode" /\ ret'[t].val # NULL) =>
                     ret'[t].val \in heap']_vars

\* C13 witness: two decodes have succeeded, two strings are with the host,
\* and a cleanup has run since.
C13_Witness ==
    /\ heap = {1, 2}
    /\ call[MainThread].op = "cleanup"
    /\ ret[MainThread] = Result("cleanup", 0)

\* C14: tokenizer_cleanup changes nothing but the caller's own call record:
\* the registry (empty or not), its history, the strings handed out, the
\* buffers and the other threads are as before.
C14_CleanupNoOp ==
    [][\A t \in Threads :
          Started(t, "cleanup") =>
              /\ pc'[t] = "idle"
              /\ ret'[t] = Result("cleanup", 0)
              /\ UNCHANGED <<TOKENIZER, published, init_ok, heap, buf, fault>>
              /\ \A u \in Threads \ {t} : Own(u)' = Own(u)]_vars

\* C14 witness: the registry holds model A, filled by an earlier init, and a
\* cleanup has just returned.
C14_Witness ==
    /\ TOKENIZER = [model |-> "A", by |-> MainThread]
    /\ init_ok
    /\ call[MainThread].op = "cleanup"
    /\ ret[MainThread] = Result("cleanup", 0)
    /\ heap = {}

\* C15: encode reports the first failing step, in the order text, registry,
\* engine: text that is not text gives -1 even on an empty registry; on an
\* empty registry -2 is given exactly for valid text; and the engine, hence
\* -3, is reached only with valid text and an initialized registry.
C15_FirstFailingStep ==
    [][\A t \in Threads :
          /\ Started(t, "encode") =>
                /\ ~Utf8Valid(call'[t].str) =>
                       ret'[t] = Result("encode", ERR_INVALID_TEXT)
                /\ (Utf8Valid(call'[t].str) /\ TOKENIZER = None) =>
                       ret'[t] = Result("encode", ERR_LOAD_OR_UNINIT)
                /\ (ret'[t].op = "encode" /\ ret'[t].val = ERR_LOAD_OR_UNINIT) =>
                       Utf8Valid(call'[t].str) /\ TOKENIZER = None
                /\ ret'[t].val # ERR_ENCODE
          /\ (pc[t] = "enc_run" /\ pc'[t] # "enc_run") =>
                /\ Utf8Valid(call[t].str)
                /\ TOKENIZER # None
                /\ ~Encodable(TOKENIZER.model, call[t].str) =>
                       ret'[t] = Result("encode", ERR_ENCODE)]_vars

\* C15 witness: on an empty registry, an encode of the bytes 0xFF has
\* returned -1, not -2.
C15_Witness ==
    /\ TOKENIZER = None
    /\ call[MainThread].str = <<255>>
    /\ ret[MainThread] = Result("encode", ERR_INVALID_TEXT)

\* C16: on every success path encode returns the count n of slots it filled,
\* which is not negative; so a result >= 0 means success and a negative
\* result is one of the errors -1, -2, -3.
C16_CountNonNegative ==
    \A t \in Threads :
        ret[t].op = "encode" =>
            LET success == TOKENIZER # None /\ Encodable(TOKENIZER.model, call[t].str)
                n == Cardinality({i \in 1 .. BufLen : buf[t][i] \notin Fills})
            IN  /\ success => ret[t].val >= 0 /\ ret[t].val = n
                /\ ret[t].val >= 0 => success
                /\ ret[t].val < 0 =>
                       /\ ~success
                       /\ ret[t].val \in {ERR_INVALID_TEXT, ERR_LOAD_OR_UNINIT, ERR_ENCODE}

\* C16, as far as the code goes: the same for the counts that fit the signed
\* result.
C16_CountInRange ==
    \A t \in Threads :
        ret[t].op = "encode" =>
            LET success == TOKENIZER # None /\ Encodable(TOKENIZER.model, call[t].str)
                n == Cardinality({i \in 1 .. BufLen : buf[t][i] \notin Fills})
            IN  /\ (success /\ n <= I32Max) => ret[t].val = n
                /\ ~success =>
                       ret[t].val \in {ERR_INVALID_TEXT, ERR_LOAD_OR_UNINIT, ERR_ENCODE}

\* C17: the conversions are inverse.  Every u32 id written as i32 and read
\* back as u32 is the same id; and when the host passes an untruncated encode
\* output to decode, the ids decode hands the engine are the ids the engine
\* produced.
C17_ConversionsInverse ==
    [][/\ \A u \in 0 .. (WordMod - 1) : AsU32(AsI32(u)) = u
       /\ \A t \in Threads :
             (/\ Started(t, "decode")
              /\ ret[t].op = "encode"
              /\ TOKENIZER # None
              /\ Encodable(TOKENIZER.model, call[t].str)
              /\ call[t].cap >= Len(EngineEncode(TOKENIZER.model, call[t].str, TRUE).ids)
              /\ call'[t].ids = EncodeOutput(t)) =>
                 IdsAsU32(call'[t].ids) =
                     EngineEncode(TOKENIZER.model, call[t].str, TRUE).ids]_vars

\* C17 witness: under model A, the encode output of "a", <<0, 5, 7>> written
\* as i32 with 5 and 7 wrapped negative, has been decoded back to "a".
C17_Witness ==
    /\ TOKENIZER.model = "A"
    /\ call[MainThread].ids = <<0, AsI32(5), AsI32(7)>>
    /\ AsI32(5) < 0 /\ AsI32(7) < 0
    /\ ret[MainThread].op = "decode"
    /\ ret[MainThread].text = <<97>>
====
